---------------------------- MODULE Spec2Model ----------------------------
(***************************************************************************)
(* Session-based shopping cart: the Cart Store (tables carts and           *)
(* cart_items) and the Cart Service (package repo: GetOrCreateCart,        *)
(* AddCartItem, RemoveCartItem, updateCartTotal).                          *)
(*                                                                         *)
(* A table is the sequence of its rows; a row's primary key is its index   *)
(* (auto-increment, never reused).  A soft-deleted cart_items row stays in *)
(* the table with deleted = TRUE and is skipped by every query.  Monetary  *)
(* amounts (float64) are modelled by integers: all amounts used are small  *)
(* whole numbers, which float64 represents and adds exactly.               *)
(***************************************************************************)
EXTENDS Integers, Sequences, FiniteSets, TLC

VARIABLES
    carts,  \* table carts: Seq of [session_id, status, total]
    items,  \* table cart_items: Seq of [cart_id, product_name, quantity, price, deleted]
    last,   \* the last completed Cart Service call: its arguments and what it returned
    prev,   \* the completed call before that one
    pre,    \* the tables as they were before the last call or request: [carts, items]
    ncalls, \* the number of Cart Service calls (or HTTP requests) made so far
    pc,     \* per request goroutine: "idle", or the statement the call in progress comes to next
    loc,    \* per request goroutine: the locals of the call in progress, "" when idle
    sess,   \* per browser: the session_id value of its session, "" when it holds none
    flash,  \* per browser: the flash messages of its session, oldest first
    http    \* the last HTTP request and the response it got

\* the variables of the HTTP layer
web == <<sess, flash, http>>

vars == <<carts, items, last, prev, pre, ncalls, pc, loc, sess, flash, http>>

----------------------------------------------------------------------------
(* Bounds of the model *)

\* Cart Service calls in one run: every sequence of calls up to this length
\* is explored
MaxCalls == 4
\* Cart Service calls in one run on the database whose statements may fail
MaxFaultCalls == 3
\* request goroutines running GetOrCreateCart concurrently
NumProcs == 2

----------------------------------------------------------------------------
(* Inputs *)

StatusOpen == "open"
StatusClosed == "closed"

SessionIDs == {"abc", "xyz"}
\* A string of characters is the sequence of their code points.  The
\* catalog names "shoe", "purse", "bag" and "watch":
Shoe == <<115, 104, 111, 101>>
Purse == <<112, 117, 114, 115, 101>>
Bag == <<98, 97, 103>>
Watch == <<119, 97, 116, 99, 104>>
ProductNames == {Watch, Bag}
Prices == {30, 40}
\* AddCartItem takes any int: zero is drawn too
Quantities == {0, 1, 2}
\* cart identifiers passed to the service: those of the rows, and one that never exists
NoSuchCart == 9999
NoSuchItem == 9999
CartIDArgs == (DOMAIN carts) \cup {NoSuchCart}
\* item identifiers: those of the rows, soft-deleted ones too, and one that never exists
ItemIDArgs == (DOMAIN items) \cup {NoSuchItem}
Procs == 1..NumProcs
\* the browsers talking to the server, each with its own session cookie
Browsers == {"A", "B"}

\* The database statement of a call that fails with an infrastructure
\* error (0: none fails).  A call issues at most five statements.
Faults == 0..5

NoErr == ""

----------------------------------------------------------------------------
(* Queries *)

Min(S) == CHOOSE x \in S : \A y \in S : x <= y

\* First(): the matching row with the lowest primary key, 0 for ErrRecordNotFound
FirstOf(S) == IF S = {} THEN 0 ELSE Min(S)

\* faulty variant: the lookup filters on the wrong status
FindOpenCartWrongStatus(cs, sessionID) ==
    FirstOf({c \in DOMAIN cs : cs[c].session_id = sessionID /\ cs[c].status = StatusClosed})

\* Where("session_id = ? AND status = ?", sessionID, StatusOpen).First(&userCart)
FindOpenCart(cs, sessionID) ==
    FirstOf({c \in DOMAIN cs : cs[c].session_id = sessionID /\ cs[c].status = StatusOpen})

\* the rows of cart_items a query on cart_id sees: gorm.Model's DeletedAt
\* adds "deleted_at IS NULL" to every query
LiveItems(its, cartID) ==
    {i \in DOMAIN its : its[i].cart_id = cartID /\ ~its[i].deleted}

\* faulty variant: the arguments of the lookup are swapped: it matches no row
FindItemByProductSwapped(its, cartID, productName) == FirstOf({})

\* faulty variant: the lookup sees the soft-deleted rows too
FindItemByProductUnscoped(its, cartID, productName) ==
    FirstOf({i \in DOMAIN its : /\ its[i].cart_id = cartID
                                /\ its[i].product_name = productName})

\* Where("cart_id = ? AND product_name = ?", cartID, productName).First(&existingItem)
FindItemByProduct(its, cartID, productName) ==
    FirstOf({i \in LiveItems(its, cartID) : its[i].product_name = productName})

\* faulty variant: the lookup forgets the id: the first item of the cart
FindItemByIDAnyOfCart(its, cartID, itemID) == FirstOf(LiveItems(its, cartID))

\* faulty variant: the lookup forgets the cart: the item, whichever cart owns it
FindItemByIDAnyCart(its, cartID, itemID) ==
    FirstOf({i \in DOMAIN its : ~its[i].deleted /\ i = itemID})

\* Where("cart_id = ? AND id = ?", cartID, itemID).First(&item)
FindItemByID(its, cartID, itemID) ==
    FirstOf({i \in LiveItems(its, cartID) : i = itemID})

\* faulty variant: the sum of the prices, the quantities left out
RECURSIVE SumPrice(_, _)
SumPrice(its, S) ==
    IF S = {} THEN 0
    ELSE LET i == Min(S)
         IN  its[i].price + SumPrice(its, S \ {i})

\* SUM(price * quantity) over the rows S
RECURSIVE SumPriceQuantity(_, _)
SumPriceQuantity(its, S) ==
    IF S = {} THEN 0
    ELSE LET i == Min(S)
         IN  its[i].price * its[i].quantity + SumPriceQuantity(its, S \ {i})

\* faulty variant: the sum runs over soft-deleted rows too
CartSumUnscoped(its, cartID) ==
    SumPriceQuantity(its, {i \in DOMAIN its : its[i].cart_id = cartID})

\* Select("COALESCE(SUM(price * quantity), 0)") over Where("cart_id = ?", cartID)
CartSum(its, cartID) == SumPriceQuantity(its, LiveItems(its, cartID))

----------------------------------------------------------------------------
(* Statements that write *)

\* the result of a sequence of statements: the error it ended with and the
\* tables as the statements left them
Res(e, cs, its) == [err |-> e, carts |-> cs, items |-> its]

\* faulty variant: the column has no unique index
SessionIDNeverTaken(cs, sessionID) == FALSE

\* the unique index on carts.session_id: no second row with the same
\* session_id, whatever its status
SessionIDTaken(cs, sessionID) == \E c \in DOMAIN cs : cs[c].session_id = sessionID

\* faulty variant: Status is left at its zero value
CreateCartNoStatus(cs, sessionID) ==
    IF SessionIDTaken(cs, sessionID)
    THEN [err |-> "failed to create new cart: duplicate entry", carts |-> cs, id |-> 0]
    ELSE [err |-> NoErr,
          carts |-> Append(cs, [session_id |-> sessionID, status |-> "", total |-> 0]),
          id |-> Len(cs) + 1]

\* db.Create(&userCart) with SessionID and Status set; Total is its zero value
\* (the insert is refused when the unique index would be violated)
CreateCart(cs, sessionID) ==
    IF SessionIDTaken(cs, sessionID)
    THEN [err |-> "failed to create new cart: duplicate entry", carts |-> cs, id |-> 0]
    ELSE [err |-> NoErr,
          carts |-> Append(cs, [session_id |-> sessionID, status |-> StatusOpen, total |-> 0]),
          id |-> Len(cs) + 1]

\* faulty variant: the quantity is overwritten, not incremented
MergeItemOverwrite(its, id, quantity, price) ==
    [its EXCEPT ![id].quantity = quantity]

\* faulty variant: the merge takes the price of the new call
MergeItemReprice(its, id, quantity, price) ==
    [its EXCEPT ![id].quantity = @ + quantity, ![id].price = price]

\* existingItem.Quantity += quantity; tx.Save(&existingItem): the price
\* argument of the call is not used.  Quantities stay far below the range
\* of Go's int, so += is plain addition here.
MergeItem(its, id, quantity, price) ==
    [its EXCEPT ![id].quantity = @ + quantity]

\* tx.Create(&item): a new row under the next primary key
CreateItem(its, cartID, productName, quantity, price) ==
    Append(its, [cart_id |-> cartID, product_name |-> productName,
                 quantity |-> quantity, price |-> price, deleted |-> FALSE])

\* faulty variant: the delete matches on the cart, not on the primary key
DeleteItemsOfCart(its, id) ==
    [i \in DOMAIN its |->
        IF its[i].cart_id = its[id].cart_id THEN [its[i] EXCEPT !.deleted = TRUE] ELSE its[i]]

\* tx.Delete(&item): sets deleted_at, the row stays
DeleteItem(its, id) == [its EXCEPT ![id].deleted = TRUE]

\* faulty variant: the update of the total has no condition on the cart
updateCartTotalEveryCart(cs, its, cartID, fault) ==
    IF fault = 4 THEN Res("failed to calculate total", cs, its)
    ELSE IF fault = 5 THEN Res("failed to update total", cs, its)
    ELSE Res(NoErr, [c \in DOMAIN cs |-> [cs[c] EXCEPT !.total = CartSum(its, cartID)]], its)

\* updateCartTotal: statement 4 reads the sum, statement 5 writes it
updateCartTotal(cs, its, cartID, fault) ==
    IF fault = 4 THEN Res("failed to calculate total", cs, its)
    ELSE IF fault = 5 THEN Res("failed to update total", cs, its)
    ELSE Res(NoErr,
             IF cartID \in DOMAIN cs
             THEN [cs EXCEPT ![cartID].total = CartSum(its, cartID)]
             ELSE cs,
             its)

----------------------------------------------------------------------------
(* The Cart Service calls *)

\* faulty variant: what fn wrote stays when fn returns an error
TransactionNoRollback(cs, its, r) == r

\* db.Transaction(fn): commit what fn wrote when fn returns nil, roll
\* back to the tables as they were when it returns an error
Transaction(cs, its, r) ==
    IF r.err = NoErr THEN r ELSE Res(r.err, cs, its)

\* faulty variant: AddCartItem without the lookup of the cart and its status
AddCartItemTxNoCartLookup(cs, its, cartID, productName, quantity, price, fault) ==
    LET existingItem == FindItemByProduct(its, cartID, productName)
    IN  IF existingItem # 0
        THEN updateCartTotal(cs, MergeItem(its, existingItem, quantity, price), cartID, fault)
        ELSE updateCartTotal(cs, CreateItem(its, cartID, productName, quantity, price),
                             cartID, fault)

\* the function AddCartItem runs in its transaction
AddCartItemTx(cs, its, cartID, productName, quantity, price, fault) ==
    IF fault = 1
    THEN Res("cart not found: driver error", cs, its)
    ELSE IF cartID \notin DOMAIN cs
    THEN Res("cart not found: record not found", cs, its)
    ELSE IF cs[cartID].status # StatusOpen
    THEN Res("cannot add items to a closed cart", cs, its)
    ELSE IF fault = 2
    THEN Res("failed to check items", cs, its)
    ELSE LET existingItem == FindItemByProduct(its, cartID, productName)
         IN  IF existingItem # 0
             THEN IF fault = 3
                  THEN Res("failed to update item", cs, its)
                  ELSE updateCartTotal(cs, MergeItem(its, existingItem, quantity, price),
                                       cartID, fault)
             ELSE IF fault = 3
                  THEN Res("failed to create item", cs, its)
                  ELSE updateCartTotal(cs,
                                       CreateItem(its, cartID, productName, quantity, price),
                                       cartID, fault)

\* faulty variant: RemoveCartItem does not look at the status of the cart
RemoveCartItemTxAnyStatus(cs, its, cartID, itemID, fault) ==
    IF cartID \notin DOMAIN cs
    THEN Res("cart not found: record not found", cs, its)
    ELSE LET item == FindItemByID(its, cartID, itemID)
         IN  IF item = 0
             THEN Res("item not found", cs, its)
             ELSE updateCartTotal(cs, DeleteItem(its, item), cartID, fault)

\* the function RemoveCartItem runs in its transaction
RemoveCartItemTx(cs, its, cartID, itemID, fault) ==
    IF fault = 1
    THEN Res("cart not found: driver error", cs, its)
    ELSE IF cartID \notin DOMAIN cs
    THEN Res("cart not found: record not found", cs, its)
    ELSE IF cs[cartID].status # StatusOpen
    THEN Res("cannot remove items from a closed cart", cs, its)
    ELSE IF fault = 2
    THEN Res("failed to find item", cs, its)
    ELSE LET item == FindItemByID(its, cartID, itemID)
         IN  IF item = 0
             THEN Res("item not found", cs, its)
             ELSE IF fault = 3
             THEN Res("failed to remove item", cs, its)
             ELSE updateCartTotal(cs, DeleteItem(its, item), cartID, fault)

\* GetOrCreateCart, lookup and insert in one go: [err, carts, id]
GetOrCreateCartCall(cs, sessionID, fault) ==
    LET userCart == FindOpenCart(cs, sessionID)
    IN  IF fault = 1
        THEN [err |-> "failed to get cart", carts |-> cs, id |-> 0]
        ELSE IF userCart # 0
        THEN [err |-> NoErr, carts |-> cs, id |-> userCart]
        ELSE IF fault = 2
        THEN [err |-> "failed to create new cart: driver error", carts |-> cs, id |-> 0]
        ELSE CreateCart(cs, sessionID)

\* what `last` records of a call: the operation, its arguments (0 or ""
\* for those it does not take), the error it returned (NoErr for nil), the
\* identifier of the cart it returned (0 for none), the branch it took
\* ("found", "created", "merged", "deleted"; "" when it returned an error)
\* and the identifiers of the line items preloaded into the returned cart
Call(op, sessionID, cartID, itemID, productName, quantity, price, err, ret, path) ==
    [op |-> op, sessionID |-> sessionID, cartID |-> cartID, itemID |-> itemID,
     productName |-> productName, quantity |-> quantity, price |-> price,
     err |-> err, ret |-> ret, path |-> IF err = NoErr THEN path ELSE "",
     loaded |-> {}]

\* the call returned a cart with these line items preloaded in CartItems
Loaded(call, cartItems) == [call EXCEPT !.loaded = cartItems]

NoCall == Call("none", <<>>, 0, 0, <<>>, 0, 0, NoErr, 0, "")

\* a call completes: it becomes the last call
Completes(call) ==
    /\ last' = call
    /\ prev' = last
    /\ pre' = [carts |-> carts, items |-> items]

\* an HTTP request and its response: the handler that ran, the browser, the
\* form fields as sent, the response status and Location header, the error
\* the page shows, and the error text the Cart Service or the pricing
\* lookup returned to the handler
Request(handler, browser, product, quantity, item, status, location, shown, err) ==
    [handler |-> handler, browser |-> browser, product |-> product,
     quantity |-> quantity, item |-> item, status |-> status,
     location |-> location, shown |-> shown, err |-> err]

NoRequest == Request("", "", <<>>, <<>>, <<>>, 0, "", "", NoErr)

\* no session holds a session_id or a flash message, no request was made
InitWeb ==
    /\ sess = [b \in Browsers |-> ""]
    /\ flash = [b \in Browsers |-> <<>>]
    /\ http = NoRequest

Init ==
    /\ carts = <<>>
    /\ items = <<>>
    /\ last = NoCall
    /\ prev = NoCall
    /\ pre = [carts |-> <<>>, items |-> <<>>]
    /\ ncalls = 0
    /\ pc = [p \in Procs |-> "idle"]
    /\ loc = [p \in Procs |-> ""]
    /\ InitWeb

GetOrCreateCart(sessionID, fault) ==
    LET r == GetOrCreateCartCall(carts, sessionID, fault)
        path == IF FindOpenCart(carts, sessionID) # 0 THEN "found" ELSE "created"
    IN  /\ ncalls < MaxCalls
        /\ ncalls' = ncalls + 1
        /\ carts' = r.carts
        /\ Completes(Call("GetOrCreateCart", sessionID, 0, 0, <<>>, 0, 0, r.err, r.id, path))
        /\ UNCHANGED <<items, pc, loc, web>>

AddCartItem(cartID, productName, quantity, price, fault) ==
    LET r == Transaction(carts, items,
                 AddCartItemTx(carts, items, cartID, productName, quantity, price, fault))
        path == IF FindItemByProduct(items, cartID, productName) # 0
                THEN "merged" ELSE "created"
    IN  /\ ncalls < MaxCalls
        /\ ncalls' = ncalls + 1
        /\ carts' = r.carts
        /\ items' = r.items
        /\ Completes(Call("AddCartItem", "", cartID, 0, productName, quantity, price,
                          r.err, 0, path))
        /\ UNCHANGED <<pc, loc, web>>

RemoveCartItem(cartID, itemID, fault) ==
    LET r == Transaction(carts, items,
                 RemoveCartItemTx(carts, items, cartID, itemID, fault))
    IN  /\ ncalls < MaxCalls
        /\ ncalls' = ncalls + 1
        /\ carts' = r.carts
        /\ items' = r.items
        /\ Completes(Call("RemoveCartItem", "", cartID, itemID, <<>>, 0, 0,
                          r.err, 0, "deleted"))
        /\ UNCHANGED <<pc, loc, web>>

\* the Cart Service called by one caller, one call at a time, on a database
\* whose statements do not fail
Next ==
    \/ \E s \in SessionIDs : GetOrCreateCart(s, 0)
    \/ \E c \in CartIDArgs, p \in ProductNames, q \in Quantities, pr \in Prices :
          AddCartItem(c, p, q, pr, 0)
    \/ \E c \in CartIDArgs, i \in ItemIDArgs : RemoveCartItem(c, i, 0)

Spec == Init /\ [][Next]_vars

\* the same, on a database where any statement of any call may fail
NextFault ==
    \/ \E s \in SessionIDs, f \in Faults :
          ncalls < MaxFaultCalls /\ GetOrCreateCart(s, f)
    \/ \E c \in CartIDArgs, p \in ProductNames, q \in Quantities, pr \in Prices,
          f \in Faults : ncalls < MaxFaultCalls /\ AddCartItem(c, p, q, pr, f)
    \/ \E c \in CartIDArgs, i \in ItemIDArgs, f \in Faults :
          ncalls < MaxFaultCalls /\ RemoveCartItem(c, i, f)

SpecFault == Init /\ [][NextFault]_vars

----------------------------------------------------------------------------
(* Concurrent requests: GetOrCreateCart is two statements with no          *)
(* transaction around them, so the statements of several goroutines        *)
(* interleave.                                                             *)

\* the lookup of GetOrCreateCart by goroutine p: returns the open cart
\* found, or goes on to the insert
LookupCart(p, sessionID, fault) ==
    LET userCart == FindOpenCart(carts, sessionID)
    IN  /\ pc[p] = "idle"
        /\ ncalls < MaxCalls
        /\ ncalls' = ncalls + 1
        /\ IF fault = 1
           THEN /\ Completes(Call("GetOrCreateCart", sessionID, 0, 0, <<>>, 0, 0,
                                  "failed to get cart", 0, ""))
                /\ UNCHANGED <<pc, loc>>
           ELSE IF userCart # 0
           THEN /\ Completes(Call("GetOrCreateCart", sessionID, 0, 0, <<>>, 0, 0,
                                  NoErr, userCart, "found"))
                /\ UNCHANGED <<pc, loc>>
           ELSE /\ pc' = [pc EXCEPT ![p] = "create"]
                /\ loc' = [loc EXCEPT ![p] = sessionID]
                /\ UNCHANGED <<last, prev, pre>>
        /\ UNCHANGED <<carts, items, web>>

\* the insert of GetOrCreateCart by goroutine p, after a lookup that found nothing
InsertCart(p, fault) ==
    LET r == IF fault = 2
             THEN [err |-> "failed to create new cart: driver error", carts |-> carts, id |-> 0]
             ELSE CreateCart(carts, loc[p])
    IN  /\ pc[p] = "create"
        /\ carts' = r.carts
        /\ Completes(Call("GetOrCreateCart", loc[p], 0, 0, <<>>, 0, 0, r.err, r.id, "created"))
        /\ pc' = [pc EXCEPT ![p] = "idle"]
        /\ loc' = [loc EXCEPT ![p] = ""]
        /\ UNCHANGED <<items, ncalls, web>>

NextConc ==
    \/ \E p \in Procs, s \in SessionIDs, f \in {0, 1} : LookupCart(p, s, f)
    \/ \E p \in Procs, f \in {0, 2} : InsertCart(p, f)

SpecConc == Init /\ [][NextConc]_vars

----------------------------------------------------------------------------
(* The Cart Service on a database that already holds a closed cart.  The    *)
(* tables outlive the server process, and the service reads the status of   *)
(* rows whoever wrote them; the service itself writes status open only.     *)

\* Cart Service calls in one run on the database that holds a closed cart
MaxStoredCalls == 3

\* faulty variant: the lookup considers open carts only
FindCartBySessionOpenOnly(cs, sessionID) == FindOpenCart(cs, sessionID)

\* Where("session_id = ?", sessionID).First(&c): the status is not part of
\* the condition
FindCartBySession(cs, sessionID) ==
    FirstOf({c \in DOMAIN cs : cs[c].session_id = sessionID})

\* GetExistingCart: statement 1 reads the cart, statement 2 preloads its
\* line items; the error of either is returned as it is
GetExistingCartCall(cs, its, sessionID, fault) ==
    LET c == FindCartBySession(cs, sessionID)
    IN  IF fault = 1 THEN [err |-> "driver error", id |-> 0, loaded |-> {}]
        ELSE IF c = 0 THEN [err |-> "record not found", id |-> 0, loaded |-> {}]
        ELSE IF fault = 2 THEN [err |-> "driver error", id |-> 0, loaded |-> {}]
        ELSE [err |-> NoErr, id |-> c, loaded |-> LiveItems(its, c)]

GetExistingCart(sessionID, fault) ==
    LET r == GetExistingCartCall(carts, items, sessionID, fault)
    IN  /\ ncalls < MaxCalls
        /\ ncalls' = ncalls + 1
        /\ Completes(Loaded(Call("GetExistingCart", sessionID, 0, 0, <<>>, 0, 0,
                                 r.err, r.id, "found"),
                            r.loaded))
        /\ UNCHANGED <<carts, items, pc, loc, web>>

\* the databases the server starts on: a closed cart of session "abc",
\* with one line item and the matching total, or without line items
StoredDatabases ==
    {[carts |-> <<[session_id |-> "abc", status |-> StatusClosed, total |-> 40]>>,
      items |-> <<[cart_id |-> 1, product_name |-> Watch, quantity |-> 1,
                   price |-> 40, deleted |-> FALSE]>>],
     [carts |-> <<[session_id |-> "abc", status |-> StatusClosed, total |-> 0]>>,
      items |-> <<>>]}

InitStored ==
    /\ \E db \in StoredDatabases :
          /\ carts = db.carts
          /\ items = db.items
          /\ pre = db
    /\ last = NoCall
    /\ prev = NoCall
    /\ ncalls = 0
    /\ pc = [p \in Procs |-> "idle"]
    /\ loc = [p \in Procs |-> ""]
    /\ InitWeb

NextStored ==
    \/ /\ ncalls < MaxStoredCalls
       /\ \E s \in SessionIDs : GetOrCreateCart(s, 0)
    \/ /\ ncalls < MaxStoredCalls
       /\ \E c \in CartIDArgs, p \in ProductNames, q \in Quantities, pr \in Prices :
             AddCartItem(c, p, q, pr, 0)
    \/ /\ ncalls < MaxStoredCalls
       /\ \E c \in CartIDArgs, i \in ItemIDArgs : RemoveCartItem(c, i, 0)
    \/ /\ ncalls < MaxStoredCalls
       /\ \E s \in SessionIDs : GetExistingCart(s, 0)

SpecStored == InitStored /\ [][NextStored]_vars

----------------------------------------------------------------------------
(* Concurrent AddCartItem transactions.  The code takes no lock of its own   *)
(* and sets no isolation level, so the transactions run as MySQL 8.0 runs   *)
(* them by default (REPEATABLE READ): the reads of a transaction see the     *)
(* tables as they were committed at its first read, and what the            *)
(* transaction itself wrote; its writes reach the tables at its commit; an  *)
(* update of a row waits while another open transaction has written that     *)
(* row.  A row a transaction inserts is numbered here at its commit; the    *)
(* database numbers it at the insert.                                        *)

\* AddCartItem transactions begun in one run
MaxTxCalls == 2

\* the request goroutines that run the transactions
TxProcs == {1, 2}
\* the quantity arguments of the transactions
TxQuantities == {1, 2}

\* the database the transactions start on: the open cart of session "abc"
\* with one line item, watch, and its total
TxDatabase ==
    [carts |-> <<[session_id |-> "abc", status |-> StatusOpen, total |-> 40]>>,
     items |-> <<[cart_id |-> 1, product_name |-> Watch, quantity |-> 1,
                  price |-> 40, deleted |-> FALSE]>>]

InitTx ==
    /\ carts = TxDatabase.carts
    /\ items = TxDatabase.items
    /\ pre = TxDatabase
    /\ last = NoCall
    /\ prev = NoCall
    /\ ncalls = 0
    /\ pc = [p \in Procs |-> "idle"]
    /\ loc = [p \in Procs |-> ""]
    /\ InitWeb

\* statement 1, tx.First(&userCart, cartID): the transaction takes its view
\* of the tables; it ends here when the cart is missing or not open
TxBegin(p, cartID, productName, quantity, price) ==
    /\ pc[p] = "idle"
    /\ ncalls < MaxTxCalls
    /\ ncalls' = ncalls + 1
    /\ IF cartID \notin DOMAIN carts
       THEN /\ Completes(Call("AddCartItem", "", cartID, 0, productName, quantity, price,
                              "cart not found: record not found", 0, ""))
            /\ UNCHANGED <<pc, loc>>
       ELSE IF carts[cartID].status # StatusOpen
       THEN /\ Completes(Call("AddCartItem", "", cartID, 0, productName, quantity, price,
                              "cannot add items to a closed cart", 0, ""))
            /\ UNCHANGED <<pc, loc>>
       ELSE /\ pc' = [pc EXCEPT ![p] = "find"]
            /\ loc' = [loc EXCEPT ![p] =
                          [cartID |-> cartID, productName |-> productName,
                           quantity |-> quantity, price |-> price,
                           snapshot |-> items, items |-> items,
                           existingItem |-> 0, total |-> 0]]
            /\ UNCHANGED <<last, prev, pre>>
    /\ UNCHANGED <<carts, items, web>>

\* statement 2, Where("cart_id = ? AND product_name = ?").First(&existingItem),
\* read in the view of the transaction
TxFindItem(p) ==
    /\ pc[p] = "find"
    /\ pc' = [pc EXCEPT ![p] = "write"]
    /\ loc' = [loc EXCEPT ![p].existingItem =
                  FindItemByProduct(loc[p].items, loc[p].cartID, loc[p].productName)]
    /\ UNCHANGED <<carts, items, last, prev, pre, ncalls, web>>

\* another open transaction has written the row the transaction found
RowIsLocked(p) ==
    \E q \in TxProcs \ {p} :
        /\ pc[q] \in {"sum", "total", "commit"}
        /\ loc[q].existingItem # 0
        /\ loc[q].existingItem = loc[p].existingItem

\* statement 3: tx.Save(&existingItem) with the quantity raised from the one
\* read, or tx.Create(&item)
TxWriteItem(p) ==
    /\ pc[p] = "write"
    /\ ~RowIsLocked(p)
    /\ pc' = [pc EXCEPT ![p] = "sum"]
    /\ loc' = [loc EXCEPT ![p].items =
                  IF loc[p].existingItem # 0
                  THEN MergeItem(loc[p].items, loc[p].existingItem,
                                 loc[p].quantity, loc[p].price)
                  ELSE CreateItem(loc[p].items, loc[p].cartID, loc[p].productName,
                                  loc[p].quantity, loc[p].price)]
    /\ UNCHANGED <<carts, items, last, prev, pre, ncalls, web>>

\* faulty variant: the sum is read from the tables as committed now, with
\* the write of the transaction itself on top
TxViewCurrent(p) ==
    IF loc[p].existingItem # 0
    THEN [items EXCEPT ![loc[p].existingItem] = loc[p].items[loc[p].existingItem]]
    ELSE Append(items, loc[p].items[Len(loc[p].items)])

\* what the reads of the transaction see: its view with its own write
TxView(p) == loc[p].items

\* statement 4 of updateCartTotal: the sum, read in the view of the transaction
TxSum(p) ==
    /\ pc[p] = "sum"
    /\ pc' = [pc EXCEPT ![p] = "total"]
    /\ loc' = [loc EXCEPT ![p].total = CartSum(TxView(p), loc[p].cartID)]
    /\ UNCHANGED <<carts, items, last, prev, pre, ncalls, web>>

\* another open transaction has written the total of the same cart
CartIsLocked(p) ==
    \E q \in TxProcs \ {p} :
        /\ pc[q] = "commit"
        /\ loc[q].cartID = loc[p].cartID

\* statement 5 of updateCartTotal: Update("total", total)
TxWriteTotal(p) ==
    /\ pc[p] = "total"
    /\ ~CartIsLocked(p)
    /\ pc' = [pc EXCEPT ![p] = "commit"]
    /\ UNCHANGED <<carts, items, last, prev, pre, ncalls, loc, web>>

\* the function returned nil: db.Transaction commits the written row and
\* the written total
TxCommit(p) ==
    /\ pc[p] = "commit"
    /\ items' = IF loc[p].existingItem # 0
                THEN [items EXCEPT ![loc[p].existingItem] =
                                       loc[p].items[loc[p].existingItem]]
                ELSE Append(items, loc[p].items[Len(loc[p].items)])
    /\ carts' = [carts EXCEPT ![loc[p].cartID].total = loc[p].total]
    /\ Completes(Call("AddCartItem", "", loc[p].cartID, 0, loc[p].productName,
                      loc[p].quantity, loc[p].price, NoErr, 0,
                      IF loc[p].existingItem # 0 THEN "merged" ELSE "created"))
    /\ pc' = [pc EXCEPT ![p] = "idle"]
    /\ loc' = [loc EXCEPT ![p] = ""]
    /\ UNCHANGED <<ncalls, web>>

NextTx ==
    \/ \E p \in TxProcs, c \in CartIDArgs, n \in ProductNames, q \in TxQuantities,
          pr \in Prices : TxBegin(p, c, n, q, pr)
    \/ \E p \in TxProcs : TxFindItem(p)
    \/ \E p \in TxProcs : TxWriteItem(p)
    \/ \E p \in TxProcs : TxSum(p)
    \/ \E p \in TxProcs : TxWriteTotal(p)
    \/ \E p \in TxProcs : TxCommit(p)

SpecTx == InitTx /\ [][NextTx]_vars

----------------------------------------------------------------------------
(* The HTTP layer: GET /, POST /add-item and POST /remove-item, as they run  *)
(* once the session and CSRF middleware have let the request through.  A    *)
(* form value is the sequence of the code points of its characters.         *)

\* HTTP requests in one run
MaxRequests == 3
\* HTTP requests in one run on the database whose statements may fail
MaxFaultRequests == 3

\* values of the form field product: none, "bag", "Watch", "ba g", "h_4T", "!"
ProductForms ==
    {<<>>, Bag, <<87, 97, 116, 99, 104>>, <<98, 97, 32, 103>>, <<104, 95, 52, 84>>, <<33>>}
\* values of the form field quantity: none, "x", "0", "-1", "1", "+2"
QuantityForms == {<<>>, <<120>>, <<48>>, <<45, 49>>, <<49>>, <<43, 50>>}
\* values of the form field cart_item_id: none, "x", "-1", "1", "2"
ItemForms == {<<>>, <<120>>, <<45, 49>>, <<49>>, <<50>>}

\* The statement of a request that fails (0: none).  GET / issues the two
\* statements of GetOrCreateCart.  POST /add-item issues those (1, 2) and
\* the five of AddCartItem (3..7).  POST /remove-item issues the two of
\* GetExistingCart (1, 2), the one of GetCartItem (3) and the five of
\* RemoveCartItem (4..8).
ShowCartFaults == 0..2
AddItemFaults == 0..7
RemoveItemFaults == 0..8

\* the fault of the call whose statements are first+1 .. first+n of the request
FaultOf(fault, first, n) ==
    IF fault > first /\ fault <= first + n THEN fault - first ELSE 0

StatusOK == 200
StatusFound == 302

\* faulty variant: upper-case letters are dropped, not lowered
RECURSIVE sanitizeProductNameNoLower(_)
sanitizeProductNameNoLower(name) ==
    IF name = <<>> THEN <<>>
    ELSE LET char == Head(name)
             rest == sanitizeProductNameNoLower(Tail(name))
         IN  IF \/ (char >= 97 /\ char <= 122)
                \/ (char >= 48 /\ char <= 57)
                \/ char = 95
             THEN <<char>> \o rest
             ELSE rest

\* sanitizeProductName: lower-case letters, digits and the underscore are
\* kept, upper-case letters are lowered (char + 32), every other character
\* is dropped
RECURSIVE sanitizeProductName(_)
sanitizeProductName(name) ==
    IF name = <<>> THEN <<>>
    ELSE LET char == Head(name)
             rest == sanitizeProductName(Tail(name))
         IN  IF \/ (char >= 97 /\ char <= 122)
                \/ (char >= 48 /\ char <= 57)
                \/ char = 95
             THEN <<char>> \o rest
             ELSE IF char >= 65 /\ char <= 90
             THEN <<char + 32>> \o rest
             ELSE rest

isValidProduct(name) == name = Shoe \/ name = Purse \/ name = Bag \/ name = Watch

\* defaultPrices of NewCartHandler
productPrices == (Shoe :> 10) @@ (Purse :> 20) @@ (Bag :> 30) @@ (Watch :> 40)

\* faulty variant: every product of the table is sold at the first price
GetProductPriceFlat(name) ==
    IF name \in DOMAIN productPrices
    THEN [err |-> NoErr, price |-> productPrices[Shoe]]
    ELSE [err |-> "product not found", price |-> 0]

\* GetProductPrice; the error text also names the product
GetProductPrice(name) ==
    IF name \in DOMAIN productPrices
    THEN [err |-> NoErr, price |-> productPrices[name]]
    ELSE [err |-> "product not found", price |-> 0]

\* the number the decimal digits s spell
RECURSIVE DigitsValue(_)
DigitsValue(s) ==
    IF s = <<>> THEN 0
    ELSE 10 * DigitsValue(SubSeq(s, 1, Len(s) - 1)) + (s[Len(s)] - 48)

IsDigits(s) == s # <<>> /\ \A i \in DOMAIN s : s[i] >= 48 /\ s[i] <= 57

\* faulty variant: the sign is dropped
AtoiUnsigned(s) ==
    IF s # <<>> /\ s[1] \in {43, 45} /\ IsDigits(Tail(s))
    THEN [err |-> NoErr, n |-> DigitsValue(Tail(s))]
    ELSE IF IsDigits(s)
    THEN [err |-> NoErr, n |-> DigitsValue(s)]
    ELSE [err |-> "invalid syntax", n |-> 0]

\* strconv.Atoi: an optional sign, then one or more decimal digits.  (The
\* forms here are a few characters long: the range error of longer ones
\* does not arise.)
Atoi(s) ==
    IF s # <<>> /\ s[1] = 43 /\ IsDigits(Tail(s))
    THEN [err |-> NoErr, n |-> DigitsValue(Tail(s))]
    ELSE IF s # <<>> /\ s[1] = 45 /\ IsDigits(Tail(s))
    THEN [err |-> NoErr, n |-> 0 - DigitsValue(Tail(s))]
    ELSE IF IsDigits(s)
    THEN [err |-> NoErr, n |-> DigitsValue(s)]
    ELSE [err |-> "invalid syntax", n |-> 0]

\* strconv.ParseUint(s, 10, 32): one or more decimal digits, no sign
ParseUint(s) ==
    IF IsDigits(s)
    THEN [err |-> NoErr, n |-> DigitsValue(s)]
    ELSE [err |-> "invalid syntax", n |-> 0]

\* GetCartItem: the error of the statement is returned as it is
GetCartItemCall(its, cartID, itemID, fault) ==
    LET item == FindItemByID(its, cartID, itemID)
    IN  IF fault = 1 THEN [err |-> "driver error", id |-> 0]
        ELSE IF item = 0 THEN [err |-> "record not found", id |-> 0]
        ELSE [err |-> NoErr, id |-> item]

\* faulty variant: the redirect goes to another page
RedirectElsewhere(code, location) == [status |-> code, location |-> "/cart"]

\* c.Redirect(code, location)
Redirect(code, location) == [status |-> code, location |-> location]

\* what a handler leaves behind: the message it added to the flash ("" for
\* none), the error text a call returned to it, the tables and the response
Reply(message, err, cs, its, resp) ==
    [message |-> message, err |-> err, carts |-> cs, items |-> its, resp |-> resp]

\* faulty variant: AddItem without the check that the session holds a
\* session_id
AddItemHandlerNoSessionCheck(cs, its, sessionID, productForm, quantityStr, fault) ==
    LET product == sanitizeProductName(productForm)
        parsed == Atoi(quantityStr)
        priced == GetProductPrice(product)
        got == GetOrCreateCartCall(cs, sessionID, FaultOf(fault, 0, 2))
    IN  IF product = <<>>
        THEN Reply("Please select a product", NoErr, cs, its, Redirect(StatusFound, "/"))
        ELSE IF ~isValidProduct(product)
        THEN Reply("Invalid product selected", NoErr, cs, its, Redirect(StatusFound, "/"))
        ELSE IF quantityStr = <<>>
        THEN Reply("Please enter a quantity", NoErr, cs, its, Redirect(StatusFound, "/"))
        ELSE IF parsed.err # NoErr \/ parsed.n < 1
        THEN Reply("Quantity must be a valid number greater than 0", parsed.err, cs, its,
                   Redirect(StatusFound, "/"))
        ELSE IF priced.err # NoErr
        THEN Reply(priced.err, priced.err, cs, its, Redirect(StatusFound, "/"))
        ELSE IF got.err # NoErr
        THEN Reply("Failed to load cart", got.err, cs, its, Redirect(StatusFound, "/"))
        ELSE IF got.carts[got.id].session_id # sessionID
        THEN Reply("Unauthorized cart access", NoErr, got.carts, its,
                   Redirect(StatusFound, "/"))
        ELSE LET r == Transaction(got.carts, its,
                          AddCartItemTx(got.carts, its, got.id, product, parsed.n,
                                        priced.price, FaultOf(fault, 2, 5)))
             IN  IF r.err # NoErr
                 THEN Reply("Failed to add item to cart", r.err, r.carts, r.items,
                            Redirect(StatusFound, "/"))
                 ELSE Reply("", NoErr, r.carts, r.items, Redirect(StatusFound, "/"))

\* AddItem, for the session value sessionID ("" for nil)
AddItemHandler(cs, its, sessionID, productForm, quantityStr, fault) ==
    LET product == sanitizeProductName(productForm)
        parsed == Atoi(quantityStr)
        priced == GetProductPrice(product)
        got == GetOrCreateCartCall(cs, sessionID, FaultOf(fault, 0, 2))
    IN  IF product = <<>>
        THEN Reply("Please select a product", NoErr, cs, its, Redirect(StatusFound, "/"))
        ELSE IF ~isValidProduct(product)
        THEN Reply("Invalid product selected", NoErr, cs, its, Redirect(StatusFound, "/"))
        ELSE IF quantityStr = <<>>
        THEN Reply("Please enter a quantity", NoErr, cs, its, Redirect(StatusFound, "/"))
        ELSE IF parsed.err # NoErr \/ parsed.n < 1
        THEN Reply("Quantity must be a valid number greater than 0", parsed.err, cs, its,
                   Redirect(StatusFound, "/"))
        ELSE IF priced.err # NoErr
        THEN Reply(priced.err, priced.err, cs, its, Redirect(StatusFound, "/"))
        ELSE IF sessionID = ""
        THEN Reply("Invalid session", NoErr, cs, its, Redirect(StatusFound, "/"))
        ELSE IF got.err # NoErr
        THEN Reply("Failed to load cart", got.err, cs, its, Redirect(StatusFound, "/"))
        ELSE IF got.carts[got.id].session_id # sessionID
        THEN Reply("Unauthorized cart access", NoErr, got.carts, its,
                   Redirect(StatusFound, "/"))
        ELSE LET r == Transaction(got.carts, its,
                          AddCartItemTx(got.carts, its, got.id, product, parsed.n,
                                        priced.price, FaultOf(fault, 2, 5)))
             IN  IF r.err # NoErr
                 THEN Reply("Failed to add item to cart", r.err, r.carts, r.items,
                            Redirect(StatusFound, "/"))
                 ELSE Reply("", NoErr, r.carts, r.items, Redirect(StatusFound, "/"))

\* RemoveItem, for the session value sessionID ("" for nil)
RemoveItemHandler(cs, its, sessionID, itemForm, fault) ==
    LET parsed == ParseUint(itemForm)
        got == GetExistingCartCall(cs, its, sessionID, FaultOf(fault, 0, 2))
        item == GetCartItemCall(its, got.id, parsed.n, FaultOf(fault, 2, 1))
    IN  IF parsed.err # NoErr
        THEN Reply("Invalid item ID", parsed.err, cs, its, Redirect(StatusFound, "/"))
        ELSE IF sessionID = ""
        THEN Reply("Invalid session", NoErr, cs, its, Redirect(StatusFound, "/"))
        ELSE IF got.err # NoErr
        THEN Reply("Cart not found", got.err, cs, its, Redirect(StatusFound, "/"))
        ELSE IF cs[got.id].session_id # sessionID
        THEN Reply("Unauthorized cart access", NoErr, cs, its, Redirect(StatusFound, "/"))
        ELSE IF item.err # NoErr
        THEN Reply("Item not found", item.err, cs, its, Redirect(StatusFound, "/"))
        ELSE LET r == Transaction(cs, its,
                          RemoveCartItemTx(cs, its, got.id, parsed.n, FaultOf(fault, 3, 5)))
             IN  IF r.err # NoErr
                 THEN Reply(r.err, r.err, r.carts, r.items, Redirect(StatusFound, "/"))
                 ELSE Reply("", NoErr, r.carts, r.items, Redirect(StatusFound, "/"))

\* a request was served: it becomes the last request
Serves(request) ==
    /\ http' = request
    /\ pre' = [carts |-> carts, items |-> items]
    /\ ncalls' = ncalls + 1
    /\ UNCHANGED <<last, prev, pc, loc>>

\* session identifiers no session and no cart holds: generateSessionID
\* draws 32 random bytes
FreshSessionIDs ==
    {s \in SessionIDs : /\ \A b \in Browsers : sess[b] # s
                        /\ \A c \in DOMAIN carts : carts[c].session_id # s}

\* GET / by browser b, with the session identifier generated for a session
\* that holds none; saveFails: session.Save() of the new identifier fails
ShowCart(b, generated, saveFails, fault) ==
    LET flashes == flash[b]
        sessionID == IF sess[b] = "" THEN generated ELSE sess[b]
        got == GetOrCreateCartCall(carts, sessionID, fault)
        shown == IF flashes # <<>> THEN flashes[1] ELSE ""
    IN  /\ sess[b] = "" => generated \in FreshSessionIDs
        /\ sess[b] # "" => generated = sess[b] /\ ~saveFails
        /\ flash' = [flash EXCEPT ![b] = <<>>]
        /\ IF saveFails
           THEN /\ UNCHANGED <<sess, carts>>
                /\ Serves(Request("ShowCart", b, <<>>, <<>>, <<>>, StatusOK, "",
                                  "Failed to create session", "save failed"))
           ELSE /\ sess' = [sess EXCEPT ![b] = sessionID]
                /\ carts' = got.carts
                /\ Serves(Request("ShowCart", b, <<>>, <<>>, <<>>, StatusOK, "",
                                  IF got.err # NoErr THEN "Failed to load cart" ELSE shown,
                                  got.err))
        /\ UNCHANGED items

\* POST /add-item by browser b
AddItem(b, productForm, quantityStr, fault) ==
    LET r == AddItemHandler(carts, items, sess[b], productForm, quantityStr, fault)
    IN  /\ carts' = r.carts
        /\ items' = r.items
        /\ flash' = IF r.message # "" THEN [flash EXCEPT ![b] = Append(@, r.message)]
                    ELSE flash
        /\ Serves(Request("AddItem", b, productForm, quantityStr, <<>>,
                          r.resp.status, r.resp.location, r.message, r.err))
        /\ UNCHANGED sess

\* POST /remove-item by browser b
RemoveItem(b, itemForm, fault) ==
    LET r == RemoveItemHandler(carts, items, sess[b], itemForm, fault)
    IN  /\ carts' = r.carts
        /\ items' = r.items
        /\ flash' = IF r.message # "" THEN [flash EXCEPT ![b] = Append(@, r.message)]
                    ELSE flash
        /\ Serves(Request("RemoveItem", b, <<>>, <<>>, itemForm,
                          r.resp.status, r.resp.location, r.message, r.err))
        /\ UNCHANGED sess

\* the requests of the browsers, one at a time, on a database and a session
\* store whose statements do not fail
NextHTTP ==
    \/ /\ ncalls < MaxRequests
       /\ \E b \in Browsers, s \in SessionIDs : ShowCart(b, s, FALSE, 0)
    \/ /\ ncalls < MaxRequests
       /\ \E b \in Browsers, p \in ProductForms, q \in QuantityForms : AddItem(b, p, q, 0)
    \/ ncalls < MaxRequests /\ \E b \in Browsers, i \in ItemForms : RemoveItem(b, i, 0)

SpecHTTP == Init /\ [][NextHTTP]_vars

\* the browser whose requests run on the failing database
FaultBrowsers == {"A"}

\* the same for one browser, where any statement of any request may fail.
\* A fault names a statement; when the request does not get to that
\* statement the run is the one without a fault, which fault 0 gives.
NextHTTPFault ==
    \/ \E b \in FaultBrowsers, s \in SessionIDs, sf \in BOOLEAN, f \in ShowCartFaults :
          /\ ncalls < MaxFaultRequests
          /\ f # 0 => GetOrCreateCartCall(carts, s, f) # GetOrCreateCartCall(carts, s, 0)
          /\ ShowCart(b, s, sf, f)
    \/ \E b \in FaultBrowsers, p \in ProductForms, q \in QuantityForms,
          f \in AddItemFaults :
          /\ ncalls < MaxFaultRequests
          /\ f # 0 => AddItemHandler(carts, items, sess[b], p, q, f)
                       # AddItemHandler(carts, items, sess[b], p, q, 0)
          /\ AddItem(b, p, q, f)
    \/ \E b \in FaultBrowsers, i \in ItemForms, f \in RemoveItemFaults :
          /\ ncalls < MaxFaultRequests
          /\ f # 0 => RemoveItemHandler(carts, items, sess[b], i, f)
                       # RemoveItemHandler(carts, items, sess[b], i, 0)
          /\ RemoveItem(b, i, f)

SpecHTTPFault == Init /\ [][NextHTTPFault]_vars

\* requests in one run of the browsers that post the forms of the cart page
MaxPageRequests == 4

\* the product and quantity fields the form of the cart page posts (two of
\* its four options, and the value the quantity input starts with), and the
\* cart_item_id fields of its remove buttons; a browser may post the
\* cart_item_id of a line it was never shown
PageProductForms == {Bag, Watch}
PageQuantityForms == {<<49>>}
PageItemForms == {<<49>>, <<50>>}

\* longer runs of the two browsers, on the forms of the cart page only
NextHTTPPage ==
    \/ /\ ncalls < MaxPageRequests
       /\ \E b \in Browsers, s \in SessionIDs : ShowCart(b, s, FALSE, 0)
    \/ /\ ncalls < MaxPageRequests
       /\ \E b \in Browsers, p \in PageProductForms, q \in PageQuantityForms :
             AddItem(b, p, q, 0)
    \/ /\ ncalls < MaxPageRequests
       /\ \E b \in Browsers, i \in PageItemForms : RemoveItem(b, i, 0)

SpecHTTPPage == Init /\ [][NextHTTPPage]_vars

\* Cart Service calls and HTTP requests in one run of both together
MaxSteps == 2

\* Cart Service calls and HTTP requests in any order, as when the service
\* has callers besides the handlers
NextAll ==
    \/ ncalls < MaxSteps /\ \E s \in SessionIDs : GetOrCreateCart(s, 0)
    \/ /\ ncalls < MaxSteps
       /\ \E c \in CartIDArgs, p \in ProductNames, q \in Quantities, pr \in Prices :
             AddCartItem(c, p, q, pr, 0)
    \/ ncalls < MaxSteps /\ \E c \in CartIDArgs, i \in ItemIDArgs : RemoveCartItem(c, i, 0)
    \/ /\ ncalls < MaxSteps
       /\ \E b \in Browsers, s \in SessionIDs : ShowCart(b, s, FALSE, 0)
    \/ /\ ncalls < MaxSteps
       /\ \E b \in Browsers, p \in ProductForms, q \in QuantityForms : AddItem(b, p, q, 0)
    \/ ncalls < MaxSteps /\ \E b \in Browsers, i \in ItemForms : RemoveItem(b, i, 0)

SpecAll == Init /\ [][NextAll]_vars

----------------------------------------------------------------------------
(* Properties.  They read the tables directly, not through the queries of  *)
(* the model.                                                              *)

\* the current (non-deleted) line items of cart c in the table its
LinesOf(its, c) == {i \in DOMAIN its : its[i].cart_id = c /\ its[i].deleted = FALSE}

\* the current line items of cart c for product p
LinesFor(its, c, p) == {i \in LinesOf(its, c) : its[i].product_name = p}

RECURSIVE LinesTotalUpTo(_, _, _)
LinesTotalUpTo(its, c, n) ==
    IF n = 0 THEN 0
    ELSE LinesTotalUpTo(its, c, n - 1)
         + (IF n \in LinesOf(its, c) THEN its[n].price * its[n].quantity ELSE 0)

\* the sum of price * quantity over the current line items of cart c
LinesTotal(its, c) == LinesTotalUpTo(its, c, Len(its))

\* the step is one completed Cart Service call
CallStep == ncalls' = ncalls + 1

\* C1: after any sequence of GetOrCreateCart, AddCartItem and RemoveCartItem
\* calls made one at a time, each succeeding or failing (statement failures
\* included), every cart's stored total is the sum of price * quantity over its
\* current line items, and zero when it has none.
C1_TotalIsSumOfLines ==
    \A c \in DOMAIN carts :
        /\ carts[c].total = LinesTotal(items, c)
        /\ LinesOf(items, c) = {} => carts[c].total = 0

\* a second AddCartItem for the product of a cart's only line failed on the
\* write of the total, after its item statement, and was rolled back: the
\* line has the quantity of the first call and the total matches it
C1_Witness ==
    /\ prev.op = "AddCartItem" /\ prev.err = NoErr /\ prev.quantity > 0
    /\ last.op = "AddCartItem" /\ last.err = "failed to update total"
    /\ last.cartID = prev.cartID /\ last.productName = prev.productName
    /\ last.quantity > 0
    /\ \E i \in DOMAIN items :
          /\ LinesOf(items, last.cartID) = {i}
          /\ items[i].quantity = prev.quantity
          /\ carts[last.cartID].total = prev.price * prev.quantity

\* C2: in every reachable state there is at most one open cart per session
\* identifier, also when two GetOrCreateCart calls for the same new session
\* interleave between their lookup and their insert.
C2_OneOpenCartPerSession ==
    \A c1, c2 \in DOMAIN carts :
        (/\ carts[c1].session_id = carts[c2].session_id
         /\ carts[c1].status = StatusOpen
         /\ carts[c2].status = StatusOpen) => c1 = c2

\* two goroutines looked up the same new session and found nothing; one
\* inserted its cart, and the insert of the other was then refused
C2_WitnessRace ==
    /\ prev.op = "GetOrCreateCart" /\ prev.path = "created"
    /\ last.op = "GetOrCreateCart" /\ last.sessionID = prev.sessionID
    /\ last.err = "failed to create new cart: duplicate entry"
    /\ prev.ret \in DOMAIN carts
    /\ carts[prev.ret].session_id = last.sessionID

\* C3: two successive GetOrCreateCart(S) calls return the same cart identifier,
\* and the second creates no cart and changes nothing in the store.
C3_SecondGetOrCreateSame ==
    [][(/\ CallStep
        /\ last.op = "GetOrCreateCart" /\ last.err = NoErr
        /\ last'.op = "GetOrCreateCart" /\ last'.sessionID = last.sessionID)
       => (/\ last'.err = NoErr
           /\ last'.ret = last.ret
           /\ carts' = carts
           /\ items' = items)]_vars

\* GetOrCreateCart(S) created a cart and the next call, GetOrCreateCart(S)
\* again, returned that cart
C3_Witness ==
    /\ prev.op = "GetOrCreateCart" /\ prev.path = "created"
    /\ last.op = "GetOrCreateCart" /\ last.sessionID = prev.sessionID
    /\ last.err = NoErr /\ last.ret = prev.ret
    /\ last.ret \in DOMAIN carts

\* C4: AddCartItem(cart, p, q1, price) on an open cart with no line for p,
\* followed by AddCartItem(cart, p, q2, price), leaves exactly one line for p,
\* of quantity q1 + q2, and the total reflects the merged quantity.
C4_MergeSumsQuantity ==
    [][(/\ CallStep
        /\ last.op = "AddCartItem" /\ last.err = NoErr /\ last.path = "created"
        /\ last'.op = "AddCartItem"
        /\ last'.cartID = last.cartID
        /\ last'.productName = last.productName
        /\ last'.price = last.price)
       => (/\ last'.err = NoErr
           /\ \E i \in DOMAIN items' :
                 /\ LinesFor(items', last.cartID, last.productName) = {i}
                 /\ items'[i].quantity = last.quantity + last'.quantity
           /\ carts'[last.cartID].total
                = carts[last.cartID].total + last.price * last'.quantity
           /\ carts'[last.cartID].total = LinesTotal(items', last.cartID))]_vars

\* a product was added as a new line with quantity 1, then added again with
\* quantity 2: one line of quantity 3, and the total is three times its price
C4_Witness ==
    /\ prev.op = "AddCartItem" /\ prev.path = "created" /\ prev.quantity = 1
    /\ last.op = "AddCartItem" /\ last.path = "merged" /\ last.quantity = 2
    /\ last.cartID = prev.cartID /\ last.productName = prev.productName
    /\ last.price = prev.price
    /\ \E i \in DOMAIN items :
          /\ LinesOf(items, last.cartID) = {i}
          /\ items[i].quantity = 3
          /\ carts[last.cartID].total = 3 * last.price

\* C5: after any sequence of AddCartItem and RemoveCartItem calls made one at a
\* time, no cart has two current line items with the same product name.
C5_UniqueProductPerCart ==
    \A i, j \in DOMAIN items :
        (/\ items[i].deleted = FALSE /\ items[j].deleted = FALSE
         /\ items[i].cart_id = items[j].cart_id
         /\ items[i].product_name = items[j].product_name) => i = j

\* a product was added, removed and added again: the cart has one current
\* line for it beside the soft-deleted row of the same name
C5_Witness ==
    /\ last.op = "AddCartItem" /\ last.path = "created"
    /\ Cardinality(LinesFor(items, last.cartID, last.productName)) = 1
    /\ \E i \in DOMAIN items :
          /\ items[i].deleted
          /\ items[i].cart_id = last.cartID
          /\ items[i].product_name = last.productName

\* C6 (as claimed): every stored line item has quantity >= 1 in every
\* reachable state, whatever sequence of Cart Service calls produced it.
C6_QuantityAtLeastOne ==
    \A i \in DOMAIN items : items[i].quantity >= 1

\* C7: AddCartItem for a product that already has a line, with a different
\* price argument, leaves the stored price of the line unchanged, and the
\* total is computed with the stored price.
C7_MergeKeepsPrice ==
    [][(/\ CallStep
        /\ last'.op = "AddCartItem" /\ last'.err = NoErr
        /\ \E i \in LinesFor(items, last'.cartID, last'.productName) :
              items[i].price # last'.price)
       => (\A i \in LinesFor(items, last'.cartID, last'.productName) :
             /\ items'[i].price = items[i].price
             /\ items'[i].quantity = items[i].quantity + last'.quantity
             /\ LinesFor(items', last'.cartID, last'.productName) = {i}
             /\ carts'[last'.cartID].total
                  = carts[last'.cartID].total + items[i].price * last'.quantity)]_vars

\* a line created at one price was merged into by a call with another price:
\* it keeps the first price, and the total is that price times its quantity
C7_Witness ==
    /\ prev.op = "AddCartItem" /\ prev.path = "created"
    /\ last.op = "AddCartItem" /\ last.path = "merged" /\ last.quantity > 0
    /\ last.cartID = prev.cartID /\ last.productName = prev.productName
    /\ last.price # prev.price
    /\ \E i \in DOMAIN items :
          /\ LinesOf(items, last.cartID) = {i}
          /\ items[i].price = prev.price
          /\ carts[last.cartID].total = prev.price * items[i].quantity

\* C8: AddCartItem with a cart identifier that is not in the store returns an
\* error and leaves the store unchanged: no line item is created and no cart
\* total is modified.
C8_AddToMissingCartFails ==
    [][(/\ CallStep
        /\ last'.op = "AddCartItem"
        /\ last'.cartID \notin DOMAIN carts)
       => (/\ last'.err # NoErr
           /\ carts' = carts
           /\ items' = items)]_vars

\* AddCartItem(9999, ...) was refused on a store that holds a cart with a line
C8_Witness ==
    /\ last.op = "AddCartItem" /\ last.cartID = NoSuchCart
    /\ last.err = "cart not found: record not found"
    /\ \E c \in DOMAIN carts : LinesOf(items, c) # {} /\ carts[c].total > 0

\* C9: RemoveCartItem with an item identifier that does not exist (no row, or
\* a soft-deleted one) returns an error and leaves the cart's line items and
\* total as they were.
C9_RemoveMissingItemFails ==
    [][(/\ CallStep
        /\ last'.op = "RemoveCartItem"
        /\ \/ last'.itemID \notin DOMAIN items
           \/ items[last'.itemID].deleted)
       => (/\ last'.err # NoErr
           /\ carts' = carts
           /\ items' = items)]_vars

\* RemoveCartItem(cart, 9999) was refused on a cart that holds a line
C9_Witness ==
    /\ last.op = "RemoveCartItem" /\ last.itemID = NoSuchItem
    /\ last.cartID \in DOMAIN carts
    /\ last.err = "item not found"
    /\ LinesOf(items, last.cartID) # {}
    /\ carts[last.cartID].total > 0

\* C10: RemoveCartItem(cartID, itemID) fails when the item exists but belongs
\* to another cart than cartID, and then neither cart's line items nor totals
\* change.
C10_RemoveForeignItemFails ==
    [][(/\ CallStep
        /\ last'.op = "RemoveCartItem"
        /\ last'.itemID \in DOMAIN items
        /\ items[last'.itemID].deleted = FALSE
        /\ items[last'.itemID].cart_id # last'.cartID)
       => (/\ last'.err # NoErr
           /\ carts' = carts
           /\ items' = items)]_vars

\* RemoveCartItem on an existing cart, with the identifier of a line of
\* another cart, was refused; the line is still there
C10_Witness ==
    /\ last.op = "RemoveCartItem"
    /\ last.cartID \in DOMAIN carts
    /\ last.itemID \in DOMAIN items
    /\ items[last.itemID].deleted = FALSE
    /\ items[last.itemID].cart_id # last.cartID
    /\ items[last.itemID].cart_id \in DOMAIN carts
    /\ carts[items[last.itemID].cart_id].total > 0
    /\ last.err = "item not found"

\* C11: AddCartItem and RemoveCartItem on a cart whose status is not open
\* return an error and change neither that cart's line items nor its total;
\* no step creates, merges or deletes a line item of a cart that is not open
C11_ClosedCartIsFrozen ==
    [][/\ (/\ CallStep
           /\ last'.op \in {"AddCartItem", "RemoveCartItem"}
           /\ last'.cartID \in DOMAIN carts
           /\ carts[last'.cartID].status # StatusOpen)
          => (/\ last'.err # NoErr
              /\ carts'[last'.cartID] = carts[last'.cartID]
              /\ LinesOf(items', last'.cartID) = LinesOf(items, last'.cartID)
              /\ \A i \in LinesOf(items, last'.cartID) : items'[i] = items[i])
       /\ \A c \in DOMAIN carts :
             carts[c].status # StatusOpen
             => /\ LinesOf(items', c) = LinesOf(items, c)
                /\ \A i \in LinesOf(items, c) : items'[i] = items[i]]_vars

\* both calls were refused on the closed cart that holds a line item
C11_Witness ==
    /\ prev.op = "AddCartItem"
    /\ prev.err = "cannot add items to a closed cart"
    /\ last.op = "RemoveCartItem"
    /\ last.err = "cannot remove items from a closed cart"
    /\ last.cartID \in DOMAIN carts
    /\ carts[last.cartID].status = StatusClosed
    /\ last.itemID \in LinesOf(items, last.cartID)
    /\ prev.cartID = last.cartID
    /\ \E i \in LinesOf(items, last.cartID) : items[i].product_name = prev.productName

\* C12: AddCartItem and RemoveCartItem are atomic.  A call that returns an
\* error, whichever statement failed, leaves both tables as they were; a
\* call that returns nil has made its item change (the new row, the raised
\* quantity, the deletion) and the total of the cart is the sum over the
\* line items as they are after that change.
C12_TransactionsAreAtomic ==
    [][(/\ CallStep
        /\ last'.op \in {"AddCartItem", "RemoveCartItem"})
       => IF last'.err # NoErr
          THEN /\ carts' = carts
               /\ items' = items
          ELSE /\ carts'[last'.cartID].total = LinesTotal(items', last'.cartID)
               /\ last'.path = "created"
                  => /\ Len(items') = Len(items) + 1
                     /\ Len(items') \in LinesOf(items', last'.cartID)
               /\ last'.path = "merged"
                  => \E i \in LinesOf(items, last'.cartID) :
                        /\ items[i].product_name = last'.productName
                        /\ items'[i].quantity = items[i].quantity + last'.quantity
               /\ last'.path = "deleted"
                  => /\ last'.itemID \in LinesOf(items, last'.cartID)
                     /\ last'.itemID \notin LinesOf(items', last'.cartID)]_vars

\* a line was added with its total, then its removal failed after the
\* delete statement, at the recomputation of the total: the line and the
\* total are still there
C12_Witness ==
    /\ prev.op = "AddCartItem" /\ prev.err = NoErr /\ prev.path = "created"
    /\ prev.quantity > 0
    /\ last.op = "RemoveCartItem" /\ last.err = "failed to calculate total"
    /\ last.cartID = prev.cartID
    /\ last.itemID \in LinesOf(items, last.cartID)
    /\ items[last.itemID].product_name = prev.productName
    /\ carts[last.cartID].total = prev.price * prev.quantity
    /\ pre = [carts |-> carts, items |-> items]

\* C13: whenever no open cart with session identifier S is stored,
\* GetOrCreateCart(S) returns nil and an open cart of S with total zero,
\* also when a closed cart of S is stored.  (Violated: the unique index on
\* session_id refuses the insert next to the closed cart.)
C13_CreatesBesideClosedCart ==
    [][(/\ CallStep
        /\ last'.op = "GetOrCreateCart"
        /\ ~ \E c \in DOMAIN carts :
               /\ carts[c].session_id = last'.sessionID
               /\ carts[c].status = StatusOpen)
       => (/\ last'.err = NoErr
           /\ last'.ret \in DOMAIN carts'
           /\ carts'[last'.ret].session_id = last'.sessionID
           /\ carts'[last'.ret].status = StatusOpen
           /\ carts'[last'.ret].total = 0)]_vars

\* C15: when AddCartItem has created a line for a product the cart had no
\* line for, and the next call removes that line, the cart has the line
\* items and the total it had before the two calls; a cart that was empty
\* has no line item and total 0 again
C15_AddThenRemoveRestores ==
    [][(/\ CallStep
        /\ last.op = "AddCartItem"
        /\ last.err = NoErr
        /\ last.path = "created"
        /\ last'.op = "RemoveCartItem"
        /\ last'.cartID = last.cartID
        /\ last'.itemID = Len(items))
       => (/\ last'.err = NoErr
           /\ LinesOf(items', last.cartID) = LinesOf(pre.items, last.cartID)
           /\ \A i \in LinesOf(pre.items, last.cartID) : items'[i] = pre.items[i]
           /\ carts'[last.cartID] = pre.carts[last.cartID]
           /\ LinesOf(pre.items, last.cartID) = {}
              => /\ LinesOf(items', last.cartID) = {}
                 /\ carts'[last.cartID].total = 0)]_vars

\* a second product was added to a cart that held a line, and removed again
C15_Witness ==
    /\ prev.op = "AddCartItem" /\ prev.err = NoErr /\ prev.path = "created"
    /\ prev.quantity > 0
    /\ last.op = "RemoveCartItem" /\ last.err = NoErr
    /\ last.cartID = prev.cartID
    /\ last.itemID = Len(items)
    /\ items[last.itemID].product_name = prev.productName
    /\ items[last.itemID].deleted
    /\ LinesOf(items, last.cartID) # {}
    /\ carts[last.cartID].total > 0

\* C16: in the run GetOrCreateCart("abc"); AddCartItem(watch, 1, 40);
\* AddCartItem(bag, 2, 30); RemoveCartItem(the watch line) on the new cart,
\* every call returns nil, the total of the cart after the calls is 0, 40,
\* 100 and 60, and at the end its one line item is bag with quantity 2.
\* (The number of calls made pins the run: the tables before the fourth
\* call hold one cart and the two lines, which takes the three calls.)
C16_TraceTotals ==
    LET isCreate(call) ==
            /\ call.op = "GetOrCreateCart" /\ call.sessionID = "abc"
        isAdd(call, productName, quantity, price) ==
            /\ call.op = "AddCartItem" /\ call.cartID = 1
            /\ call.productName = productName
            /\ call.quantity = quantity /\ call.price = price
        isCart(cs) == Len(cs) = 1 /\ cs[1].session_id = "abc"
        isLine(row, productName, quantity, price) ==
            /\ row.cart_id = 1 /\ row.product_name = productName
            /\ row.quantity = quantity /\ row.price = price /\ ~row.deleted
    IN  /\ (ncalls = 1 /\ isCreate(last))
           => (last.err = NoErr /\ last.ret = 1 /\ isCart(carts) /\ carts[1].total = 0)
        /\ (ncalls = 2 /\ isCreate(prev) /\ isAdd(last, Watch, 1, 40))
           => (last.err = NoErr /\ carts[1].total = 40)
        /\ (/\ ncalls = 3 /\ isCart(pre.carts) /\ Len(pre.items) = 1
            /\ isAdd(prev, Watch, 1, 40) /\ isAdd(last, Bag, 2, 30))
           => (last.err = NoErr /\ carts[1].total = 100)
        /\ (/\ ncalls = 4 /\ isCart(pre.carts) /\ Len(pre.items) = 2
            /\ isLine(pre.items[1], Watch, 1, 40)
            /\ isLine(pre.items[2], Bag, 2, 30)
            /\ isAdd(prev, Bag, 2, 30)
            /\ last.op = "RemoveCartItem" /\ last.cartID = 1 /\ last.itemID = 1)
           => (/\ last.err = NoErr
               /\ carts[1].total = 60
               /\ LinesOf(items, 1) = {2}
               /\ items[2].product_name = Bag
               /\ items[2].quantity = 2)

\* the run was made to its end
C16_Witness ==
    /\ ncalls = 4
    /\ Len(carts) = 1 /\ carts[1].session_id = "abc" /\ carts[1].total = 60
    /\ prev.op = "AddCartItem" /\ prev.productName = Bag /\ prev.quantity = 2
    /\ prev.price = 30 /\ prev.path = "created"
    /\ last.op = "RemoveCartItem" /\ last.itemID = 1 /\ last.err = NoErr
    /\ Len(items) = 2
    /\ items[1].product_name = Watch /\ items[1].price = 40 /\ items[1].deleted
    /\ pre.carts[1].total = 100

\* C17: GetExistingCart(S) changes no table; when a cart with session
\* identifier S is stored, open or closed, it returns that cart with its
\* current line items loaded; when none is stored it fails with
\* record-not-found
C17_GetExistingCartReadsOnly ==
    [][(/\ CallStep
        /\ last'.op = "GetExistingCart")
       => (/\ carts' = carts
           /\ items' = items
           /\ IF \E c \in DOMAIN carts : carts[c].session_id = last'.sessionID
              THEN /\ last'.err = NoErr
                   /\ last'.ret \in DOMAIN carts
                   /\ carts[last'.ret].session_id = last'.sessionID
                   /\ last'.loaded = LinesOf(items, last'.ret)
              ELSE /\ last'.err = "record not found"
                   /\ last'.ret = 0)]_vars

\* the closed cart was returned with its line item
C17_Witness ==
    /\ last.op = "GetExistingCart"
    /\ last.err = NoErr
    /\ last.ret \in DOMAIN carts
    /\ carts[last.ret].status = StatusClosed
    /\ last.loaded # {}
    /\ last.loaded = LinesOf(items, last.ret)

C18_PostsRedirectHome ==
    http.handler \in {"AddItem", "RemoveItem"}
    => (http.status = 302 /\ http.location = "/")

\* the removal of a line of the cart failed in the database, and was
\* answered with the redirect
C18_Witness ==
    /\ http.handler = "RemoveItem"
    /\ http.err = "failed to remove item"
    /\ http.status = 302
    /\ http.location = "/"
    /\ items # <<>>

\* the messages the handlers word themselves
GenericMessages ==
    {"Please select a product", "Invalid product selected", "Please enter a quantity",
     "Quantity must be a valid number greater than 0", "Invalid session",
     "Failed to load cart", "Unauthorized cart access", "Failed to add item to cart",
     "Invalid item ID", "Cart not found", "Item not found"}

\* C19: every flash message is one of the generic messages, and the text of
\* an error the Cart Service or the pricing lookup returned to a handler is
\* not what the handler put in the flash.  (Violated: RemoveItem flashes
\* the text of the error RemoveCartItem returned.)
C19_FlashIsGeneric ==
    /\ \A b \in Browsers : \A i \in DOMAIN flash[b] : flash[b][i] \in GenericMessages
    /\ (http.handler \in {"AddItem", "RemoveItem"} /\ http.err # NoErr)
       => http.shown # http.err

\* the forms C20 speaks of: the product none, "h_4T" or "!", the quantity
\* none, "x", "0" or "-1"
C20_InvalidForm ==
    \/ http.product \in {<<>>, <<104, 95, 52, 84>>, <<33>>}
    \/ http.quantity \in {<<>>, <<120>>, <<48>>, <<45, 49>>}

\* C20: a POST /add-item whose product is empty or not in the catalog, or
\* whose quantity is empty, not a number or less than 1, leaves the line
\* items as they were before the request, and the total of every cart
C20_InvalidAddChangesNothing ==
    (http.handler = "AddItem" /\ C20_InvalidForm)
    => (/\ items = pre.items
        /\ \A c \in DOMAIN pre.carts :
              c \in DOMAIN carts /\ carts[c].total = pre.carts[c].total)

\* a valid product with quantity "-1" was posted by the browser whose cart
\* holds a line, and refused
C20_Witness ==
    /\ http.handler = "AddItem"
    /\ http.product = Bag
    /\ http.quantity = <<45, 49>>
    /\ http.shown = "Quantity must be a valid number greater than 0"
    /\ sess[http.browser] # ""
    /\ \E c \in DOMAIN carts :
          /\ carts[c].session_id = sess[http.browser]
          /\ LinesOf(items, c) # {}
          /\ carts[c].total > 0

\* the characters of [a-z0-9_A-Z], by code point
C21_Kept(ch) ==
    \/ ch \in 97..122
    \/ ch \in 48..57
    \/ ch = 95
    \/ ch \in 65..90

\* the form value name with every other character taken out and the
\* upper-case letters lowered
C21_Normalised(name) ==
    LET kept == SelectSeq(name, C21_Kept)
    IN  [i \in 1..Len(kept) |-> IF kept[i] \in 65..90 THEN kept[i] + 32 ELSE kept[i]]

\* C21: POST /add-item is turned away at the product checks exactly when
\* the product field, lowercased and stripped of the characters outside
\* [a-z0-9_], is none of shoe, purse, bag, watch; and a line item the
\* request created or changed bears that normalised name
C21_ProductIsNormalised ==
    http.handler = "AddItem"
    => LET name == C21_Normalised(http.product)
       IN  /\ (http.shown \in {"Please select a product", "Invalid product selected"})
              <=> (name \notin {Shoe, Purse, Bag, Watch})
           /\ \A i \in DOMAIN items :
                 (i \notin DOMAIN pre.items \/ items[i] # pre.items[i])
                 => items[i].product_name = name

\* "Watch" was posted and a line for watch created, then "ba g" and a
\* line for bag
C21_Witness ==
    /\ http.handler = "AddItem"
    /\ http.product = <<98, 97, 32, 103>>
    /\ http.shown = ""
    /\ Len(items) = 2
    /\ Len(pre.items) = 1
    /\ items[1].product_name = Watch
    /\ items[2].product_name = Bag

\* the two AddCartItem transactions of the run have both committed, on the
\* same cart
C22_BothCommitted ==
    /\ ncalls = 2
    /\ \A p \in TxProcs : pc[p] = "idle"
    /\ last.op = "AddCartItem" /\ prev.op = "AddCartItem"
    /\ last.err = NoErr /\ prev.err = NoErr
    /\ last.cartID = prev.cartID

\* the quantity product p had in cart c before the transactions
C22_QuantityBefore(c, p) ==
    LET lines == LinesFor(TxDatabase.items, c, p)
    IN  IF lines = {} THEN 0 ELSE TxDatabase.items[CHOOSE i \in lines : TRUE].quantity

\* C22: when two AddCartItem transactions for the same open cart and the
\* same product have run with their statements interleaved and both
\* committed, the cart has exactly one line item for the product, and its
\* quantity is what it was before plus the two requested quantities.
C22_ConcurrentAddsBothCount ==
    (C22_BothCommitted /\ last.productName = prev.productName)
    => LET lines == LinesFor(items, last.cartID, last.productName)
       IN  /\ Cardinality(lines) = 1
           /\ \A i \in lines :
                 items[i].quantity =
                     C22_QuantityBefore(last.cartID, last.productName)
                     + last.quantity + prev.quantity

\* since transaction p took its view of the tables, another transaction
\* committed a new or changed line item of the same cart, in a row p does
\* not write itself
C23_SumMissesCommittedLine(p) ==
    \E i \in LinesOf(items, loc[p].cartID) :
        /\ i # loc[p].existingItem
        /\ \/ i \notin DOMAIN loc[p].snapshot
           \/ items[i] # loc[p].snapshot[i]

\* C23: a transaction that computed its sum in a view of the tables without
\* the line item change another transaction has committed since stores, at
\* its own commit, a total that differs from the sum of price * quantity
\* over the line items of the cart.
C23_StaleTotalIsStored ==
    [][\A p \in TxProcs :
          (pc[p] = "commit" /\ pc'[p] = "idle" /\ C23_SumMissesCommittedLine(p))
          => carts'[loc[p].cartID].total # LinesTotal(items', loc[p].cartID)]_vars

\* both transactions have committed and the stored total of the cart is
\* not the sum over its line items
C23_Witness ==
    /\ \A p \in TxProcs : pc[p] = "idle"
    /\ last.op = "AddCartItem" /\ prev.op = "AddCartItem"
    /\ last.err = NoErr /\ prev.err = NoErr
    /\ last.cartID = prev.cartID
    /\ last.path = "created" /\ prev.path = "merged"
    /\ carts[last.cartID].total # LinesTotal(items, last.cartID)

\* the cart rows and line items of the carts that are not of session s
\* are as they were before the last request
C24_CartsOfOthersUnchanged(s) ==
    /\ \A c \in DOMAIN pre.carts :
          pre.carts[c].session_id # s
          => c \in DOMAIN carts /\ carts[c] = pre.carts[c]
    /\ \A i \in DOMAIN items :
          (i \notin DOMAIN pre.items \/ items[i] # pre.items[i])
          => /\ items[i].cart_id \in DOMAIN carts
             /\ carts[items[i].cart_id].session_id = s

\* the last request asked to remove a line item of a cart that is not of
\* the session of its browser
C24_RemovesForeignItem ==
    /\ http.handler = "RemoveItem"
    /\ ParseUint(http.item).err = NoErr
    /\ ParseUint(http.item).n \in DOMAIN pre.items
    /\ ~pre.items[ParseUint(http.item).n].deleted
    /\ pre.carts[pre.items[ParseUint(http.item).n].cart_id].session_id
          # sess[http.browser]

\* C24: a request of a session never changes the row or the line items of a
\* cart of another session: what it adds or changes lies in the cart of its
\* own session id, and a remove-item naming a line item of another
\* session's cart removes nothing.
C24_SessionsAreIsolated ==
    /\ http.handler \in {"ShowCart", "AddItem", "RemoveItem"}
       => C24_CartsOfOthersUnchanged(sess[http.browser])
    /\ C24_RemovesForeignItem
       => /\ items = pre.items
          /\ carts = pre.carts
          /\ http.shown = IF sess[http.browser] = "" THEN "Invalid session"
                          ELSE "Item not found"

\* browser A, with a cart of its own, posted the id of the line in the
\* cart of browser B and was told the item is not found
C24_Witness ==
    /\ C24_RemovesForeignItem
    /\ sess[http.browser] # ""
    /\ \E c \in DOMAIN carts : carts[c].session_id = sess[http.browser]
    /\ items = pre.items

\* C25: a POST /add-item or POST /remove-item of a browser whose session
\* holds no session_id leaves the carts and the line items as they were, and
\* every cart is of a session identifier that ShowCart generated and put in
\* the session of a browser.
C25_NoSessionNoMutation ==
    /\ (http.handler \in {"AddItem", "RemoveItem"} /\ sess[http.browser] = "")
       => (carts = pre.carts /\ items = pre.items)
    /\ \A c \in DOMAIN carts :
          /\ carts[c].session_id # ""
          /\ \E b \in Browsers : sess[b] = carts[c].session_id

\* a browser without a session posted bag x 1, a form that passes every
\* check before the session check, while the other browser has a cart
C25_Witness ==
    /\ http.handler = "AddItem"
    /\ sess[http.browser] = ""
    /\ http.product = Bag
    /\ http.quantity = <<49>>
    /\ http.shown = "Invalid session"
    /\ carts # <<>>

\* the last call was AddCartItem or RemoveCartItem on a cart, and another
\* cart existed
C26_CallBesideOtherCart ==
    /\ last.op \in {"AddCartItem", "RemoveCartItem"}
    /\ last.cartID \in DOMAIN pre.carts
    /\ \E c \in DOMAIN pre.carts : c # last.cartID

C27_AddsAfterRemove ==
    /\ last.op = "AddCartItem"
    /\ last.err = NoErr
    /\ LinesFor(pre.items, last.cartID, last.productName) = {}
    /\ \E d \in DOMAIN pre.items :
          /\ pre.items[d].deleted
          /\ pre.items[d].cart_id = last.cartID
          /\ pre.items[d].product_name = last.productName

\* C27: AddCartItem(cart, p, q, price) after the line for p was removed
\* creates a line under a new identifier with quantity q and the price of
\* the call; the removed row stays as it was, is not found by the lookup of
\* the call, and does not count in the total.
C27_RemovedLineStaysRemoved ==
    C27_AddsAfterRemove
    => /\ last.path = "created"
       /\ Len(items) = Len(pre.items) + 1
       /\ items[Len(items)] = [cart_id |-> last.cartID, product_name |-> last.productName,
                               quantity |-> last.quantity, price |-> last.price,
                               deleted |-> FALSE]
       /\ \A d \in DOMAIN pre.items : items[d] = pre.items[d]
       /\ carts[last.cartID].total = LinesTotal(items, last.cartID)

\* watch x 2 was added, removed, and added again x 1 at another price
C27_Witness ==
    /\ C27_AddsAfterRemove
    /\ last.quantity = 1
    /\ Len(items) = 2
    /\ items[1].deleted
    /\ items[1].quantity = 2
    /\ items[1].price # last.price
    /\ carts[last.cartID].total = last.price

\* the catalog: shoe 10, purse 20, bag 30, watch 40
C28_CatalogPrice(name) ==
    CASE name = Shoe -> 10
      [] name = Purse -> 20
      [] name = Bag -> 30
      [] name = Watch -> 40
      [] OTHER -> -1

RECURSIVE C28_CatalogTotalUpTo(_, _, _)
C28_CatalogTotalUpTo(its, c, n) ==
    IF n = 0 THEN 0
    ELSE C28_CatalogTotalUpTo(its, c, n - 1)
         + (IF n \in LinesOf(its, c)
            THEN C28_CatalogPrice(its[n].product_name) * its[n].quantity ELSE 0)

====
